---- MODULE Spec2Model ----
(***************************************************************************)
(* backend/create_dummy_users_xlsx.py: a straight-line script that builds  *)
(* a workbook in memory (sheet "Users", one header row, four literal user  *)
(* rows), saves it to dummy_users.xlsx and prints a confirmation line.     *)
(*                                                                         *)
(* The model runs the script as a process, statement by statement.  Two    *)
(* processes share one working directory (the file at the fixed path) and  *)
(* each may be started again after it has exited.  The only environment    *)
(* nondeterminism is whether wb.save succeeds.                             *)
(***************************************************************************)
EXTENDS Integers, Sequences, FiniteSets

\* ------------------------------------------------------------------ bounds
MaxRuns == 2        \* invocations per process slot
MaxCellInt == 12    \* largest numeral looked for when a numeric cell is read back

Procs == {1, 2}

\* ------------------------------------------------- python values in memory
PyInt(n) == [t |-> "int", v |-> n]
PyStr(s) == [t |-> "str", v |-> s]
PyBool(b) == [t |-> "bool", v |-> b]

\* line 10-12: the header row
Header ==
    << PyStr("pk"), PyStr("id"), PyStr("name"), PyStr("email"), PyStr("password"),
       PyStr("created_at"), PyStr("onboarding_complete"), PyStr("onboarding_data") >>

rows_reordered ==
    << << PyInt(2), PyStr("2"), PyStr("Jane Smith"), PyStr("jane@example.com"), PyStr("Password456"),
          PyStr("2023-02-15T12:30:00Z"), PyBool(FALSE), PyStr("{\"step1\":true,\"step2\":false}") >>,
       << PyInt(1), PyStr("1"), PyStr("John Doe"), PyStr("john@example.com"), PyStr("Password123"),
          PyStr("2023-01-01T10:00:00Z"), PyBool(TRUE), PyStr("{\"step1\":true,\"step2\":true}") >>,
       << PyInt(3), PyStr("3"), PyStr("Test User"), PyStr("testuser@example.com"), PyStr("TestPass789"),
          PyStr("2023-03-10T09:15:00Z"), PyBool(TRUE), PyStr("{\"step1\":true,\"step2\":true}") >>,
       << PyInt(4), PyStr("4"), PyStr("Demo User"), PyStr("demo@example.com"), PyStr("DemoPass321"),
          PyStr("2023-04-20T14:45:00Z"), PyBool(FALSE), PyStr("{\"step1\":false,\"step2\":false}") >> >>

rows_dropped ==
    << << PyInt(1), PyStr("1"), PyStr("John Doe"), PyStr("john@example.com"), PyStr("Password123"),
          PyStr("2023-01-01T10:00:00Z"), PyBool(TRUE), PyStr("{\"step1\":true,\"step2\":true}") >>,
       << PyInt(2), PyStr("2"), PyStr("Jane Smith"), PyStr("jane@example.com"), PyStr("Password456"),
          PyStr("2023-02-15T12:30:00Z"), PyBool(FALSE), PyStr("{\"step1\":true,\"step2\":false}") >>,
       << PyInt(3), PyStr("3"), PyStr("Test User"), PyStr("testuser@example.com"), PyStr("TestPass789"),
          PyStr("2023-03-10T09:15:00Z"), PyBool(TRUE), PyStr("{\"step1\":true,\"step2\":true}") >> >>

rows_untyped ==
    << << PyInt(1), PyInt(1), PyStr("John Doe"), PyStr("john@example.com"), PyStr("Password123"),
          PyStr("2023-01-01T10:00:00Z"), PyStr("True"), PyStr("{\"step1\":true,\"step2\":true}") >>,
       << PyInt(2), PyInt(2), PyStr("Jane Smith"), PyStr("jane@example.com"), PyStr("Password456"),
          PyStr("2023-02-15T12:30:00Z"), PyStr("False"), PyStr("{\"step1\":true,\"step2\":false}") >>,
       << PyInt(3), PyInt(3), PyStr("Test User"), PyStr("testuser@example.com"), PyStr("TestPass789"),
          PyStr("2023-03-10T09:15:00Z"), PyStr("True"), PyStr("{\"step1\":true,\"step2\":true}") >>,
       << PyInt(4), PyInt(4), PyStr("Demo User"), PyStr("demo@example.com"), PyStr("DemoPass321"),
          PyStr("2023-04-20T14:45:00Z"), PyStr("False"), PyStr("{\"step1\":false,\"step2\":false}") >> >>

rows_flagged ==
    << << PyInt(1), PyStr("1"), PyStr("John Doe"), PyStr("john@example.com"), PyStr("Password123"),
          PyStr("2023-01-01T10:00:00Z"), PyBool(TRUE), PyStr("{\"step1\":true,\"step2\":true}") >>,
       << PyInt(2), PyStr("2"), PyStr("Jane Smith"), PyStr("jane@example.com"), PyStr("Password456"),
          PyStr("2023-02-15T12:30:00Z"), PyBool(TRUE), PyStr("{\"step1\":true,\"step2\":false}") >>,
       << PyInt(3), PyStr("3"), PyStr("Test User"), PyStr("testuser@example.com"), PyStr("TestPass789"),
          PyStr("2023-03-10T09:15:00Z"), PyBool(TRUE), PyStr("{\"step1\":true,\"step2\":true}") >>,
       << PyInt(4), PyStr("4"), PyStr("Demo User"), PyStr("demo@example.com"), PyStr("DemoPass321"),
          PyStr("2023-04-20T14:45:00Z"), PyBool(FALSE), PyStr("{\"step1\":false,\"step2\":false}") >> >>

\* line 15-20: the literal list of user rows
rows ==
    << << PyInt(1), PyStr("1"), PyStr("John Doe"), PyStr("john@example.com"), PyStr("Password123"),
          PyStr("2023-01-01T10:00:00Z"), PyBool(TRUE), PyStr("{\"step1\":true,\"step2\":true}") >>,
       << PyInt(2), PyStr("2"), PyStr("Jane Smith"), PyStr("jane@example.com"), PyStr("Password456"),
          PyStr("2023-02-15T12:30:00Z"), PyBool(FALSE), PyStr("{\"step1\":true,\"step2\":false}") >>,
       << PyInt(3), PyStr("3"), PyStr("Test User"), PyStr("testuser@example.com"), PyStr("TestPass789"),
          PyStr("2023-03-10T09:15:00Z"), PyBool(TRUE), PyStr("{\"step1\":true,\"step2\":true}") >>,
       << PyInt(4), PyStr("4"), PyStr("Demo User"), PyStr("demo@example.com"), PyStr("DemoPass321"),
          PyStr("2023-04-20T14:45:00Z"), PyBool(FALSE), PyStr("{\"step1\":false,\"step2\":false}") >> >>

\* line 25 / line 26: the fixed path and the confirmation text
FileName == "dummy_users.xlsx"
Confirmation == "dummy_users.xlsx created."

\* ------------------------------------------ what wb.save puts in the file
\* A cell is stored with a type tag and a text value: numbers as their
\* decimal numeral (t = "n"), booleans as "1"/"0" (t = "b"), strings as
\* text (t = "s").
Digit(d) ==
    CASE d = 0 -> "0" [] d = 1 -> "1" [] d = 2 -> "2" [] d = 3 -> "3" [] d = 4 -> "4"
      [] d = 5 -> "5" [] d = 6 -> "6" [] d = 7 -> "7" [] d = 8 -> "8" [] d = 9 -> "9"

RECURSIVE ToDecimal(_)
ToDecimal(n) == IF n < 10 THEN Digit(n) ELSE ToDecimal(n \div 10) \o Digit(n % 10)

WriteCell(c) ==
    CASE c.t = "int"  -> [t |-> "n", v |-> ToDecimal(c.v)]
      [] c.t = "bool" -> [t |-> "b", v |-> IF c.v THEN "1" ELSE "0"]
      [] c.t = "str"  -> [t |-> "s", v |-> c.v]

WriteRows(rs) == [i \in 1..Len(rs) |-> [j \in 1..Len(rs[i]) |-> WriteCell(rs[i][j])]]

\* reading the file back into python values (what a loader of the file sees)
ReadCell(c) ==
    CASE c.t = "n" -> PyInt(CHOOSE n \in 0..MaxCellInt : ToDecimal(n) = c.v)
      [] c.t = "b" -> PyBool(c.v = "1")
      [] c.t = "s" -> PyStr(c.v)

ReadRows(rs) == [i \in 1..Len(rs) |-> [j \in 1..Len(rs[i]) |-> ReadCell(rs[i][j])]]

\* ------------------------------------------------------------------ state
VARIABLES
    pc,        \* pc[p]: the line process p executes next, or "done" / "failed"
    wb,        \* wb[p]: the process's workbook (its single active sheet)
    ws,        \* ws[p]: TRUE once ws is bound to wb.active
    it,        \* it[p]: how many elements of rows the for loop has taken
    row,       \* row[p]: the loop variable
    out,       \* out[p]: lines written to standard output
    exit,      \* exit[p]: exit status, -1 while running
    attempts,  \* attempts[p]: calls of wb.save made in this run
    saved,     \* saved[p]: wb.save has returned in this run
    runs,      \* runs[p]: invocations started in slot p
    file,      \* the file dummy_users.xlsx in the working directory
    after1,    \* the table left by the first completed save (history)
    overlap    \* two saves have been in progress at the same time (history)

vars == << pc, wb, ws, it, row, out, exit, attempts, saved, runs, file, after1, overlap >>

NoWb == [made |-> FALSE, title |-> "", rows |-> << >>]
NoRow == << >>
NoTable == [title |-> "", rows |-> << >>]

\* contents the path may hold before the first run
Absent == [kind |-> "absent", title |-> "", rows |-> << >>, by |-> 0, run |-> 0]
Garbage == [kind |-> "partial", title |-> "", rows |-> << >>, by |-> 0, run |-> 0]
OldBook ==
    [kind |-> "xlsx", title |-> "Sheet",
     rows |-> << << [t |-> "s", v |-> "pk"], [t |-> "s", v |-> "name"] >>,
                 << [t |-> "n", v |-> "9"], [t |-> "s", v |-> "Old User"] >> >>,
     by |-> 0, run |-> 0]
PriorBook ==
    [kind |-> "xlsx", title |-> "Users", rows |-> WriteRows(<< Header >> \o rows),
     by |-> 0, run |-> 0]
PriorFiles == { Absent, Garbage, OldBook, PriorBook }

TableOf(f) == [title |-> f.title, rows |-> f.rows]

Init ==
    /\ pc = [p \in Procs |-> "L5"]
    /\ wb = [p \in Procs |-> NoWb]
    /\ ws = [p \in Procs |-> FALSE]
    /\ it = [p \in Procs |-> 0]
    /\ row = [p \in Procs |-> NoRow]
    /\ out = [p \in Procs |-> << >>]
    /\ exit = [p \in Procs |-> -1]
    /\ attempts = [p \in Procs |-> 0]
    /\ saved = [p \in Procs |-> FALSE]
    /\ runs = [p \in Procs |-> 1]
    /\ file \in PriorFiles
    /\ after1 = NoTable
    /\ overlap = FALSE

\* ---------------------------------------------------------------- actions
\* line 5: wb = Workbook()  (a new workbook has one sheet, titled "Sheet")
Workbook_load(p) ==
    /\ pc[p] = "L5"
    /\ wb' = [wb EXCEPT ![p] =
                IF file.kind = "xlsx"
                THEN [made |-> TRUE, title |-> file.title, rows |-> ReadRows(file.rows)]
                ELSE [made |-> TRUE, title |-> "Sheet", rows |-> << >>]]
    /\ pc' = [pc EXCEPT ![p] = "L6"]
    /\ UNCHANGED << ws, it, row, out, exit, attempts, saved, runs, file, after1, overlap >>

Workbook(p) ==
    /\ pc[p] = "L5"
    /\ wb' = [wb EXCEPT ![p] = [made |-> TRUE, title |-> "Sheet", rows |-> << >>]]
    /\ pc' = [pc EXCEPT ![p] = "L6"]
    /\ UNCHANGED << ws, it, row, out, exit, attempts, saved, runs, file, after1, overlap >>

\* line 6: ws = wb.active
Active(p) ==
    /\ pc[p] = "L6"
    /\ wb[p].made
    /\ ws' = [ws EXCEPT ![p] = TRUE]
    /\ pc' = [pc EXCEPT ![p] = "L7"]
    /\ UNCHANGED << wb, it, row, out, exit, attempts, saved, runs, file, after1, overlap >>

\* line 7: ws.title = "Users"
SetTitle(p) ==
    /\ pc[p] = "L7"
    /\ ws[p]
    /\ wb' = [wb EXCEPT ![p].title = "Users"]
    /\ pc' = [pc EXCEPT ![p] = "L10"]
    /\ UNCHANGED << ws, it, row, out, exit, attempts, saved, runs, file, after1, overlap >>

\* line 10-12: ws.append([...header...])
AppendHeader(p) ==
    /\ pc[p] = "L10"
    /\ wb' = [wb EXCEPT ![p].rows = Append(@, Header)]
    /\ pc' = [pc EXCEPT ![p] = "L22"]
    /\ UNCHANGED << ws, it, row, out, exit, attempts, saved, runs, file, after1, overlap >>

\* line 22: for row in rows  (take the next element, or leave the loop)
ForNext_stuck(p) ==
    /\ pc[p] = "L22"
    /\ it[p] < Len(rows)
    /\ row' = [row EXCEPT ![p] = rows[it[p] + 1]]
    /\ pc' = [pc EXCEPT ![p] = "L22"]
    /\ UNCHANGED << it, wb, ws, out, exit, attempts, saved, runs, file, after1, overlap >>

ForNext(p) ==
    /\ pc[p] = "L22"
    /\ it[p] < Len(rows)
    /\ row' = [row EXCEPT ![p] = rows[it[p] + 1]]
    /\ it' = [it EXCEPT ![p] = @ + 1]
    /\ pc' = [pc EXCEPT ![p] = "L23"]
    /\ UNCHANGED << wb, ws, out, exit, attempts, saved, runs, file, after1, overlap >>

ForEnd_short(p) ==
    /\ pc[p] = "L22"
    /\ it[p] >= Len(rows) - 1
    /\ pc' = [pc EXCEPT ![p] = "L25"]
    /\ UNCHANGED << wb, ws, it, row, out, exit, attempts, saved, runs, file, after1, overlap >>

ForEnd(p) ==
    /\ pc[p] = "L22"
    /\ it[p] >= Len(rows)
    /\ pc' = [pc EXCEPT ![p] = "L25"]
    /\ UNCHANGED << wb, ws, it, row, out, exit, attempts, saved, runs, file, after1, overlap >>

\* line 23: ws.append(row)
AppendRow(p) ==
    /\ pc[p] = "L23"
    /\ wb' = [wb EXCEPT ![p].rows = Append(@, row[p])]
    /\ pc' = [pc EXCEPT ![p] = "L22"]
    /\ UNCHANGED << ws, it, row, out, exit, attempts, saved, runs, file, after1, overlap >>

\* line 25: wb.save("dummy_users.xlsx").  The library opens the path for
\* writing, which truncates it, then writes the archive and closes it.
\* Either half may raise (permission denied, disk full); the exception is
\* not caught, so the interpreter exits with status 1.
SaveOpenFail_retry(p) ==
    /\ pc[p] = "L25"
    /\ attempts' = [attempts EXCEPT ![p] = @ + 1]
    /\ IF attempts[p] < 1
       THEN UNCHANGED << pc, exit >>
       ELSE /\ pc' = [pc EXCEPT ![p] = "failed"]
            /\ exit' = [exit EXCEPT ![p] = 1]
    /\ UNCHANGED << wb, ws, it, row, out, saved, runs, file, after1, overlap >>

SaveOpenFail(p) ==
    /\ pc[p] = "L25"
    /\ attempts' = [attempts EXCEPT ![p] = @ + 1]
    /\ pc' = [pc EXCEPT ![p] = "failed"]
    /\ exit' = [exit EXCEPT ![p] = 1]
    /\ UNCHANGED << wb, ws, it, row, out, saved, runs, file, after1, overlap >>

SaveOpen(p) ==
    /\ pc[p] = "L25"
    /\ attempts' = [attempts EXCEPT ![p] = @ + 1]
    /\ file' = [kind |-> "partial", title |-> "", rows |-> << >>, by |-> p, run |-> runs[p]]
    /\ pc' = [pc EXCEPT ![p] = "L25w"]
    /\ overlap' = (overlap \/ \E q \in Procs \ {p} : pc[q] = "L25w")
    /\ UNCHANGED << wb, ws, it, row, out, exit, saved, runs, after1 >>

SaveWriteFail_swallowed(p) ==
    /\ pc[p] = "L25w"
    /\ file' = [kind |-> "partial", title |-> "", rows |-> << >>, by |-> p, run |-> runs[p]]
    /\ pc' = [pc EXCEPT ![p] = "L26"]
    /\ UNCHANGED << wb, ws, it, row, out, exit, attempts, saved, runs, after1, overlap >>

SaveWriteFail(p) ==
    /\ pc[p] = "L25w"
    /\ file' = [kind |-> "partial", title |-> "", rows |-> << >>, by |-> p, run |-> runs[p]]
    /\ pc' = [pc EXCEPT ![p] = "failed"]
    /\ exit' = [exit EXCEPT ![p] = 1]
    /\ UNCHANGED << wb, ws, it, row, out, attempts, saved, runs, after1, overlap >>

SaveWrite_append(p) ==
    /\ pc[p] = "L25w"
    /\ file' = [kind |-> "xlsx", title |-> wb[p].title,
                rows |-> file.rows \o WriteRows(wb[p].rows), by |-> p, run |-> runs[p]]
    /\ after1' = IF after1 = NoTable THEN TableOf(file') ELSE after1
    /\ saved' = [saved EXCEPT ![p] = TRUE]
    /\ pc' = [pc EXCEPT ![p] = "L26"]
    /\ UNCHANGED << wb, ws, it, row, out, exit, attempts, runs, overlap >>

SaveWrite(p) ==
    /\ pc[p] = "L25w"
    /\ file' = [kind |-> "xlsx", title |-> wb[p].title,
                rows |-> WriteRows(wb[p].rows), by |-> p, run |-> runs[p]]
    /\ after1' = IF after1 = NoTable THEN TableOf(file') ELSE after1
    /\ saved' = [saved EXCEPT ![p] = TRUE]
    /\ pc' = [pc EXCEPT ![p] = "L26"]
    /\ UNCHANGED << wb, ws, it, row, out, exit, attempts, runs, overlap >>

\* line 26: print("dummy_users.xlsx created."), then the script ends
print_twice(p) ==
    /\ pc[p] = "L26"
    /\ out' = [out EXCEPT ![p] = Append(Append(@, Confirmation), Confirmation)]
    /\ pc' = [pc EXCEPT ![p] = "done"]
    /\ exit' = [exit EXCEPT ![p] = 0]
    /\ UNCHANGED << wb, ws, it, row, attempts, saved, runs, file, after1, overlap >>

print(p) ==
    /\ pc[p] = "L26"
    /\ out' = [out EXCEPT ![p] = Append(@, Confirmation)]
    /\ pc' = [pc EXCEPT ![p] = "done"]
    /\ exit' = [exit EXCEPT ![p] = 0]
    /\ UNCHANGED << wb, ws, it, row, attempts, saved, runs, file, after1, overlap >>

\* the script is invoked again: a new process, nothing carried over but the file
Rerun(p) ==
    /\ pc[p] \in {"done", "failed"}
    /\ runs[p] < MaxRuns
    /\ runs' = [runs EXCEPT ![p] = @ + 1]
    /\ pc' = [pc EXCEPT ![p] = "L5"]
    /\ wb' = [wb EXCEPT ![p] = NoWb]
    /\ ws' = [ws EXCEPT ![p] = FALSE]
    /\ it' = [it EXCEPT ![p] = 0]
    /\ row' = [row EXCEPT ![p] = NoRow]
    /\ out' = [out EXCEPT ![p] = << >>]
    /\ exit' = [exit EXCEPT ![p] = -1]
    /\ attempts' = [attempts EXCEPT ![p] = 0]
    /\ saved' = [saved EXCEPT ![p] = FALSE]
    /\ UNCHANGED << file, after1, overlap >>

\* one statement of process p
Step(p) ==
    \/ Workbook(p)
    \/ Active(p)
    \/ SetTitle(p)
    \/ AppendHeader(p)
    \/ ForNext(p)
    \/ ForEnd(p)
    \/ AppendRow(p)
    \/ SaveOpen(p)
    \/ SaveOpenFail(p)
    \/ SaveWrite(p)
    \/ SaveWriteFail(p)
    \/ print(p)

Next ==
    \/ \E p \in Procs : Step(p)
    \/ \E p \in Procs : Rerun(p)

Spec == Init /\ [][Next]_vars

\* the interpreter keeps executing a started script: no statement blocks
FairSpec == Spec /\ \A p \in Procs : WF_vars(Step(p))

TypeOK ==
    /\ pc \in [Procs -> {"L5", "L6", "L7", "L10", "L22", "L23", "L25", "L25w", "L26", "done", "failed"}]
    /\ \A p \in Procs : it[p] \in 0..Len(rows) /\ runs[p] \in 1..MaxRuns /\ exit[p] \in {-1, 0, 1}
    /\ file.kind \in {"absent", "partial", "xlsx"}

\* ------------------------------------------------------- stated properties
Final == {"done", "failed"}

\* the run in slot p has saved and nobody has touched the file since
LastWriter(p) == saved[p] /\ file.by = p /\ file.run = runs[p]

\* the table the script is documented to produce, as a reader of the file sees it
UserRecord(pk, id, name, email, password, created_at, complete, data) ==
    << PyInt(pk), PyStr(id), PyStr(name), PyStr(email), PyStr(password),
       PyStr(created_at), PyBool(complete), PyStr(data) >>

JohnDoe ==
    UserRecord(1, "1", "John Doe", "john@example.com", "Password123",
               "2023-01-01T10:00:00Z", TRUE, "{\"step1\":true,\"step2\":true}")

ExpectedTable ==
    << << PyStr("pk"), PyStr("id"), PyStr("name"), PyStr("email"), PyStr("password"),
          PyStr("created_at"), PyStr("onboarding_complete"), PyStr("onboarding_data") >>,
       JohnDoe,
       UserRecord(2, "2", "Jane Smith", "jane@example.com", "Password456",
                  "2023-02-15T12:30:00Z", FALSE, "{\"step1\":true,\"step2\":false}"),
       UserRecord(3, "3", "Test User", "testuser@example.com", "TestPass789",
                  "2023-03-10T09:15:00Z", TRUE, "{\"step1\":true,\"step2\":true}"),
       UserRecord(4, "4", "Demo User", "demo@example.com", "DemoPass321",
                  "2023-04-20T14:45:00Z", FALSE, "{\"step1\":false,\"step2\":false}") >>

\* C1: after a successful run the file holds one sheet titled "Users" with
\* exactly five rows of eight cells: the header, then the four literal user
\* records in order.
C1_FileHoldsUsersTable ==
    \A p \in Procs :
        LastWriter(p) =>
            /\ file.kind = "xlsx"
            /\ file.title = "Users"
            /\ Len(file.rows) = 5
            /\ \A i \in 1..Len(file.rows) : Len(file.rows[i]) = 8
            /\ ReadRows(file.rows) = ExpectedTable

C1_Witness ==
    \E p \in Procs : pc[p] = "done" /\ LastWriter(p) /\ Len(file.rows) = 5

\* C2 as stated: row 3 of the written file is the John Doe record.
C2_Row3IsJohnDoe ==
    \A p \in Procs : LastWriter(p) => ReadRows(file.rows)[3] = JohnDoe

\* C2 as amended: the first data row, which is row 2 of the written file
\* (row 1 being the header), is the John Doe record.
C2_Row2IsJohnDoe ==
    \A p \in Procs : LastWriter(p) => ReadRows(file.rows)[2] = JohnDoe

C2_Witness ==
    \E p \in Procs : LastWriter(p) /\ file.rows[2][3] = [t |-> "s", v |-> "John Doe"]

\* C3: the confirmation line is printed only after the save has completed,
\* at most once, and a successful run has printed exactly that one line.
C3_PrintAfterSaveOnce ==
    \A p \in Procs :
        /\ Len(out[p]) <= 1
        /\ out[p] # << >> => saved[p] /\ out[p] = << "dummy_users.xlsx created." >>
        /\ pc[p] = "done" => Len(out[p]) = 1 /\ exit[p] = 0

C3_Witness ==
    \E p \in Procs : pc[p] = "done" /\ saved[p] /\ Len(out[p]) = 1

\* C4: when the save fails (the call is left without having returned) the
\* process ends there with exit status 1, having called save exactly once
\* and printed nothing; a failed process executes nothing further.
SaveFailsStep(p) ==
    /\ pc[p] \in {"L25", "L25w"}
    /\ pc'[p] # pc[p]
    /\ ~ saved'[p]
    /\ pc'[p] # "L25w"

C4_SaveFailureIsFatal ==
    [][ \A p \in Procs :
          /\ (pc[p] = "L25" /\ attempts'[p] # attempts[p]) => pc'[p] # "L25"
          /\ SaveFailsStep(p) =>
                /\ pc'[p] = "failed"
                /\ exit'[p] = 1
                /\ attempts'[p] = 1
                /\ out'[p] = << >>
          /\ (pc[p] = "failed" /\ runs'[p] = runs[p]) =>
                /\ pc'[p] = "failed"
                /\ out'[p] = << >>
                /\ attempts'[p] = 1
                /\ exit'[p] = 1 ]_vars

C4_Witness ==
    \E p \in Procs : pc[p] = "failed" /\ attempts[p] = 1 /\ file.by = p /\ file.kind = "partial"

\* C5: whatever the path held before, every completed save leaves the same
\* sheet name and rows as the first completed save did.
C5_RerunIdempotent ==
    (file.kind = "xlsx" /\ file.by # 0) => (after1 # NoTable /\ TableOf(file) = after1)

C5_Witness ==
    \E p \in Procs : runs[p] = MaxRuns /\ pc[p] = "done" /\ LastWriter(p) /\ TableOf(file) = after1

\* C6: in data row i (i = 1..4) pk is the integer i, id is a string holding
\* the decimal numeral of pk, and onboarding_complete is a boolean; in the
\* workbook and in the written file.
C6_RowTypes ==
    /\ \A p \in Procs : \A i \in 1..4 :
          Len(wb[p].rows) >= i + 1 =>
              /\ wb[p].rows[i + 1][1] = PyInt(i)
              /\ wb[p].rows[i + 1][2] = PyStr(ToDecimal(i))
              /\ wb[p].rows[i + 1][7].t = "bool"
              /\ wb[p].rows[i + 1][7].v \in BOOLEAN
    /\ (file.kind = "xlsx" /\ file.by # 0) =>
          \A i \in 1..4 :
              /\ Len(file.rows) >= i + 1
              /\ file.rows[i + 1][1] = [t |-> "n", v |-> ToDecimal(i)]
              /\ file.rows[i + 1][2] = [t |-> "s", v |-> ToDecimal(i)]
              /\ file.rows[i + 1][7].t = "b"

C6_Witness ==
    \E p \in Procs : Len(wb[p].rows) = 5 /\ file.kind = "xlsx" /\ file.by = p

\* C7: every invocation terminates, and a terminated one is in exactly one
\* of two outcomes: success (file written, line printed, status 0) or write
\* failure (status nonzero, save not completed).
Succeeded(p) == pc[p] = "done" /\ saved[p] /\ out[p] = << Confirmation >> /\ exit[p] = 0
WriteFailed(p) == pc[p] = "failed" /\ ~ saved[p] /\ attempts[p] = 1 /\ exit[p] # 0 /\ exit[p] # -1

C7_TerminatesInOneOutcome ==
    /\ \A p \in Procs : [](pc[p] \notin Final => <>(pc[p] \in Final))
    /\ [](\A p \in Procs : pc[p] \in Final => (Succeeded(p) /\ ~ WriteFailed(p)) \/ (WriteFailed(p) /\ ~ Succeeded(p)))
    /\ [](\A p \in Procs : it[p] <= 4)

C7_Witness ==
    \E p \in Procs : \E q \in Procs : Succeeded(p) /\ WriteFailed(q) /\ it[p] = 4

IsPrefix(s, t) == Len(s) <= Len(t) /\ \A i \in 1..Len(s) : s[i] = t[i]

C9_FixedOrder ==
    /\ \A p \in Procs :
          /\ Len(wb[p].rows) >= 1 => wb[p].title = "Users"
          /\ IsPrefix(wb[p].rows, ExpectedTable)
          /\ Len(wb[p].rows) = (IF pc[p] \in {"L5", "L6", "L7", "L10"} THEN 0
                                ELSE IF pc[p] = "L23" THEN it[p] ELSE it[p] + 1)
          /\ attempts[p] <= 1
          /\ (attempts[p] = 1 \/ pc[p] \in {"L25", "L25w", "L26", "done", "failed"}) =>
                Len(wb[p].rows) = 5
    /\ (file.kind = "xlsx" /\ file.by # 0) => Len(file.rows) = 5

C9_Witness ==
    \E p \in Procs : pc[p] = "L26" /\ attempts[p] = 1 /\ Len(wb[p].rows) = 5 /\ LastWriter(p)

\* C10: in every data row onboarding_complete is True exactly when the
\* onboarding_data text marks both step1 and step2 as true.
JsonBool(b) == IF b THEN "true" ELSE "false"
OnboardingText(s1, s2) ==
    "{\"step1\":" \o JsonBool(s1) \o ",\"step2\":" \o JsonBool(s2) \o "}"

FlagAgrees(r) ==
    \E s1 \in BOOLEAN : \E s2 \in BOOLEAN :
        /\ r[8] = PyStr(OnboardingText(s1, s2))
        /\ r[7] = PyBool(s1 /\ s2)

C10_FlagMatchesData ==
    /\ \A p \in Procs : \A i \in 2..Len(wb[p].rows) : FlagAgrees(wb[p].rows[i])
    /\ (file.kind = "xlsx" /\ file.by # 0) =>
          \A i \in 2..Len(file.rows) : FlagAgrees(ReadRows(file.rows)[i])

C10_Witness ==
    \E p \in Procs : Len(wb[p].rows) = 5 /\ file.by = p /\ file.kind = "xlsx" /\ Len(file.rows) = 5
====
